---------------------------- MODULE Spec2Model ----------------------------
(***************************************************************************)
(* Frame-triage and asynchronous analysis pipeline of the VLM surveillance *)
(* system: the capture loop of SurveillanceSystem (motion gate, interval   *)
(* throttle, bounded queue), the analysis worker thread, the two-stage     *)
(* anomaly decision of AnomalyDetector and the alert list of AlertHandler. *)
(*                                                                         *)
(* Time is counted in whole seconds.  A frame is a horizontal strip of     *)
(* square blocks of BlockSide x BlockSide pixels, each block of one BGR    *)
(* colour.                                                                 *)
(***************************************************************************)
EXTENDS Integers, Sequences, FiniteSets, TLC

(***************************************************************************)
(* Program constants                                                       *)
(***************************************************************************)
FRAME_INTERVAL == 2

QueueMaxsize == 10

motion_threshold == 25

min_motion_area == 500

ALERT_KEYWORDS ==
    << "intruder", "fire", "smoke", "fallen", "violence", "theft", "suspicious",
       "danger", "emergency", "unusual", "abnormal", "alert", "warning", "person",
       "breaking", "weapon", "fight", "accident" >>

human_words ==
    << "man", "woman", "person", "people", "human", "individual", "male", "female",
       "guy", "lady", "gentleman", "boy", "girl", "child", "adult" >>

(***************************************************************************)
(* Bounds of the model                                                     *)
(***************************************************************************)
\* time.time() when the system is constructed (seconds; any value >= FRAME_INTERVAL)
StartTime == 100

\* Spec: the capture loop reads the clock up to StartTime + MaxElapsed
MaxElapsed == 3

\* SpecBusy: the classifier calls made for the first MaxAnalysed tasks return
MaxAnalysed == 1

\* SpecBacklog: seconds the clock may lose on the pace of one accepted frame
\* every FRAME_INTERVAL seconds
MaxSlack == 1

\* side of one block of a frame, in pixels
BlockSide == 20

\* Python's None, and an empty local
None == << >>

(***************************************************************************)
(* Frames and the motion gate                                              *)
(***************************************************************************)
Black == << 0, 0, 0 >>

White == << 255, 255, 255 >>

Still == << Black, Black, Black >>

Flicker == << White, Black, Black >>

Walker == << White, White, Black >>

\* what the camera can deliver
Frames == { Still, Flicker, Walker }

\* cv2.cvtColor(.., COLOR_BGR2GRAY) of one pixel: 8-bit fixed point, rounded
GrayPixel(c) == (c[1] * 1868 + c[2] * 9617 + c[3] * 4899 + 8192) \div 16384

ToGray(frame) == [i \in 1..Len(frame) |-> GrayPixel(frame[i])]

Abs(n) == IF n < 0 THEN -n ELSE n

\* cv2.absdiff
AbsDiff(a, b) == [i \in 1..Len(a) |-> Abs(a[i] - b[i])]

\* cv2.threshold(.., THRESH_BINARY): 255 where the value exceeds the threshold
Threshold(diff) == [i \in 1..Len(diff) |-> IF diff[i] > motion_threshold THEN 255 ELSE 0]

\* cv2.contourArea of the outline of a run of k adjacent blocks: the outline
\* passes through the centres of the border pixels
RunArea(k) == IF k = 0 THEN 0 ELSE (k * BlockSide - 1) * (BlockSide - 1)

RECURSIVE ContoursArea(_, _, _)
\* sum of the areas of the external contours (maximal runs of set blocks)
ContoursArea(thresh, i, run) ==
    IF i > Len(thresh) THEN RunArea(run)
    ELSE IF thresh[i] = 255 THEN ContoursArea(thresh, i + 1, run + 1)
    ELSE RunArea(run) + ContoursArea(thresh, i + 1, 0)

MotionArea(prev, frame) == ContoursArea(Threshold(AbsDiff(prev, ToGray(frame))), 1, 0)

\* mutant: no cold start, the first frame is compared with an all-black buffer
HasMotionNoColdStart(prev, frame) ==
    MotionArea(IF prev = None THEN ToGray(Still) ELSE prev, frame) > min_motion_area

\* the value _detect_motion returns
HasMotion(prev, frame) ==
    IF prev = None THEN TRUE
    ELSE MotionArea(prev, frame) > min_motion_area

\* mutant: the buffer is seeded once and never replaced
StalePreviousFrame(prev, frame) == IF prev = None THEN ToGray(frame) ELSE prev

\* mutant: the buffer is replaced only when motion is found
PreviousFrameOnMotion(prev, frame) ==
    IF HasMotion(prev, frame) THEN ToGray(frame) ELSE prev

\* the buffer _detect_motion leaves in previous_frame
NextPreviousFrame(prev, frame) == ToGray(frame)

\* args.interval is None, or << v >> for the number v given with --interval;
\* the test  if args.interval  of main: None and 0 are false
Truthy(interval) == interval # None /\ interval[1] # 0

\* config.FRAME_INTERVAL after main has looked at --interval
ConfigAfterMain(interval, default) == IF Truthy(interval) THEN interval[1] ELSE default

\* mutant: the throttle is not applied
ShouldSubmitNoThrottle(motion, now, last) == motion

\* mutant: the motion verdict is not applied
ShouldSubmitNoMotion(motion, now, last) == now - last >= FRAME_INTERVAL

\* the submit decision of the capture loop
ShouldSubmit(motion, now, last) == motion /\ now - last >= FRAME_INTERVAL

\* mutant: the throttle restarts at every true decision, queued or dropped
RestartOnDecision(submit, accepted, now, last) == IF submit THEN now ELSE last

\* last_analysis_time after the submit decision: set once put_nowait has returned
NextLastAnalysisTime(submit, accepted, now, last) == IF accepted THEN now ELSE last

\* mutant: every true submit decision is counted, queued or dropped
CountEveryDecision(submit, accepted, count) == IF submit THEN count + 1 ELSE count

\* frame_count after the submit decision: incremented once put_nowait has returned
NextFrameCount(submit, accepted, count) == IF accepted THEN count + 1 ELSE count

\* mutant: the queue accepts one task more than maxsize
QueueFullOffByOne(q) == Len(q) > QueueMaxsize

\* Queue.put_nowait raises Full
QueueFull(q) == Len(q) >= QueueMaxsize

\* mutant: Queue.put, which waits for a free slot
PutWaits(q) == ~QueueFull(q)

\* Queue.put_nowait returns at once: the task is queued or Full is raised
PutNowaitReturns(q) == TRUE

\* mutant: the newest task is served first
QueueFrontNewest(q) == [item |-> q[Len(q)], rest |-> SubSeq(q, 1, Len(q) - 1)]

\* Queue.get: the oldest task and what stays queued
QueueFront(q) == [item |-> Head(q), rest |-> Tail(q)]

(***************************************************************************)
(* Text matching of AnomalyDetector                                        *)
(***************************************************************************)
UpperCase == "ABCDEFGHIJKLMNOPQRSTUVWXYZ"

LowerCase == "abcdefghijklmnopqrstuvwxyz"

LowerChar(c) ==
    IF \E i \in 1..Len(UpperCase) : SubSeq(UpperCase, i, i) = c
    THEN LET i == CHOOSE j \in 1..Len(UpperCase) : SubSeq(UpperCase, j, j) = c
         IN  SubSeq(LowerCase, i, i)
    ELSE c

RECURSIVE Lower(_)
\* str.lower()
Lower(s) ==
    IF Len(s) = 0 THEN ""
    ELSE LowerChar(SubSeq(s, 1, 1)) \o Lower(SubSeq(s, 2, Len(s)))

\* the Python test  sub in s
Contains(s, sub) ==
    \E i \in 1..(Len(s) - Len(sub) + 1) : SubSeq(s, i, i + Len(sub) - 1) = sub

\* dict.get(key, default)
Get(dict, key, default) == IF key \in DOMAIN dict THEN dict[key] ELSE default

\* self.alert_keywords
alert_keywords == [i \in 1..Len(ALERT_KEYWORDS) |-> Lower(ALERT_KEYWORDS[i])]

\* desc_lower as the keyword loop sees it
MatchText(description) ==
    LET desc_lower == Lower(description)
        human_found == \E i \in 1..Len(human_words) : Contains(desc_lower, human_words[i])
    IN  IF human_found /\ ~Contains(desc_lower, "person")
        THEN desc_lower \o " person"
        ELSE desc_lower

\* mutant: the alert keywords are looked for before the negation phrases
CheckKeywordsFirst(description) ==
    LET desc_lower == MatchText(description)
    IN  \E i \in 1..Len(alert_keywords) : Contains(desc_lower, alert_keywords[i])

\* AnomalyDetector._check_for_anomaly
CheckForAnomaly(description) ==
    LET desc_lower == MatchText(description)
    IN  IF Contains(desc_lower, "no anomaly") \/ Contains(desc_lower, "nothing unusual")
        THEN FALSE
        ELSE IF Contains(desc_lower, "appears normal")
                \/ Contains(desc_lower, "everything looks normal")
        THEN FALSE
        ELSE \E i \in 1..Len(alert_keywords) : Contains(desc_lower, alert_keywords[i])

\* mutant: the keyword gate alone decides
IsAnomalyKeywordsOnly(keywords_found, person_detected) == keywords_found

\* the final anomaly check of analyze
IsAnomaly(keywords_found, person_detected) == keywords_found /\ person_detected

\* mutant: the text prepared for keyword matching is the one returned
AnnotateMatchText(description, detected_objects) ==
    IF Len(detected_objects) > 0
    THEN MatchText(description) \o " [PERSON DETECTED: "
                                \o ToString(Len(detected_objects)) \o " person(s) found]"
    ELSE MatchText(description)

\* the description analyze returns after the localization call
Annotate(description, detected_objects) ==
    IF Len(detected_objects) > 0
    THEN description \o " [PERSON DETECTED: " \o ToString(Len(detected_objects))
                     \o " person(s) found]"
    ELSE description

\* mutant: the confidence follows the keyword gate alone
ResultConfidenceFromKeywords(timestamp, description, keywords_found, detection_result, detected_objects) ==
    LET person_detected == Len(detected_objects) > 0
        is_anomaly == IsAnomaly(keywords_found, person_detected)
    IN  [ timestamp |-> timestamp,
          description |-> Annotate(description, detected_objects),
          is_anomaly |-> is_anomaly,
          confidence |-> IF keywords_found THEN "high" ELSE "normal",
          persons_detected |-> person_detected,
          detected_objects |-> detected_objects,
          detection_result |-> detection_result ]

\* the result analyze builds in its try block
Result(timestamp, description, keywords_found, detection_result, detected_objects) ==
    LET person_detected == Len(detected_objects) > 0
        is_anomaly == IsAnomaly(keywords_found, person_detected)
    IN  [ timestamp |-> timestamp,
          description |-> Annotate(description, detected_objects),
          is_anomaly |-> is_anomaly,
          confidence |-> IF is_anomaly THEN "high" ELSE "normal",
          persons_detected |-> person_detected,
          detected_objects |-> detected_objects,
          detection_result |-> detection_result ]

\* mutant: a failed analysis is reported as a normal frame
ErrorResultAsNormal(timestamp, cause) ==
    [ timestamp |-> timestamp,
      description |-> "Error: " \o cause,
      is_anomaly |-> FALSE,
      confidence |-> "normal",
      persons_detected |-> FALSE,
      detected_objects |-> << >> ]

\* the result analyze builds in its except block
ErrorResult(timestamp, cause) ==
    [ timestamp |-> timestamp,
      description |-> "Error: " \o cause,
      is_anomaly |-> FALSE,
      confidence |-> "error",
      persons_detected |-> FALSE,
      detected_objects |-> << >> ]

(***************************************************************************)
(* What the classifier can answer                                          *)
(***************************************************************************)
\* answers of the description call seen by the pipeline
Descriptions ==
    { "a tree",
      "a woman walking, looks suspicious",
      "no anomaly detected, suspicious person nearby" }

\* results of the localization call seen by the pipeline: a dict with or
\* without "objects"
DetectionResults ==
    { [objects |-> << >>],
      [objects |-> << "box1" >>],
      [request_id |-> "r1"] }

\* fragments of answers, and the answers the detector is tried on: one
\* fragment, or two joined by a comma
Phrases ==
    { "no anomaly", "nothing unusual", "appears normal", "everything looks normal",
      "No Anomaly", "suspicious person nearby", "looks suspicious", "a woman walking",
      "Fire", "a tree" }

AllDescriptions == Phrases \cup { p \o ", " \o q : p \in Phrases, q \in Phrases }

AllDetectionResults == DetectionResults \cup { [objects |-> << "box1", "box2" >>] }

\* args.interval in the runs started with --interval
Overrides == { << 1 >>, << 3 >> }

\* causes of a failed classifier call
Causes == { "connection timed out" }

Returned(value) == [ok |-> TRUE, value |-> value]

Raised(cause) == [ok |-> FALSE, cause |-> cause]

Min(a, b) == IF a < b THEN a ELSE b

Last(s) == s[Len(s)]

(***************************************************************************)
(* State                                                                   *)
(***************************************************************************)
VARIABLES
    \* main: args.interval, and the attribute FRAME_INTERVAL of the module config
    \* (FRAME_INTERVAL above is the global of the surveillance module, bound by
    \* its import statement)
    args_interval, config_FRAME_INTERVAL,
    \* SurveillanceSystem
    running, show_preview, frame_count, anomaly_count, analysis_queue,
    unfinished_tasks, last_analysis_time, previous_frame, motion_frames_skipped,
    \* Camera: cap is opened
    camera_open,
    \* AlertHandler.alerts
    alerts,
    \* the wall clock, and the main thread: its position and the locals of _run_loop
    clock, main_pc, has_motion,
    \* the worker thread: its position and the locals of _analysis_worker / analyze
    worker_pc, task, described, detected, result,
    \* the summary stop prints
    summary,
    \* observers: the frame captured last, the time of the last true submit
    \* decision, the tasks put on the queue, the tasks analyze was invoked on,
    \* the classifier calls made for the task in hand, the handle_alert calls
    last_captured, last_decision, enqueued, analysed, calls, alert_calls,
    \* observer: the tasks in the queue when the flag was cleared
    backlog

system_vars ==
    << running, show_preview, frame_count, anomaly_count, analysis_queue,
       unfinished_tasks, last_analysis_time, previous_frame, motion_frames_skipped,
       camera_open, alerts >>

main_vars == << clock, main_pc, has_motion, summary >>

worker_vars == << worker_pc, task, described, detected, result >>

observer_vars == << last_captured, last_decision, enqueued, analysed, calls, alert_calls >>

boundary_vars == << args_interval, config_FRAME_INTERVAL >>

\* the queue at the moment the flag goes from True to False
BacklogAtClear(flag, q, seen) == IF flag THEN q ELSE seen

vars ==
    << boundary_vars, system_vars, main_vars, worker_vars, observer_vars, backlog >>

\* main up to system.start(): the arguments are parsed, --interval is applied
\* to config, and SurveillanceSystem.__init__ runs (with Camera.__init__ and
\* AlertHandler.__init__); --interval is one of Intervals, or None when absent
Boot(Intervals) ==
    /\ args_interval \in Intervals
    /\ config_FRAME_INTERVAL = ConfigAfterMain(args_interval, FRAME_INTERVAL)
    /\ running = FALSE
    /\ show_preview \in BOOLEAN
    /\ frame_count = 0
    /\ anomaly_count = 0
    /\ analysis_queue = << >>
    /\ unfinished_tasks = 0
    /\ last_analysis_time = 0
    /\ previous_frame = None
    /\ motion_frames_skipped = 0
    /\ camera_open = FALSE
    /\ alerts = << >>
    /\ clock = StartTime
    /\ main_pc = "start"
    /\ has_motion = FALSE
    /\ summary = None
    /\ worker_pc = "unborn"
    /\ task = None
    /\ described = None
    /\ detected = None
    /\ result = None
    /\ last_captured = None
    /\ last_decision = 0
    /\ enqueued = << >>
    /\ analysed = << >>
    /\ calls = << >>
    /\ alert_calls = 0
    /\ backlog = << >>

\* a run without --interval
Init == Boot({ None })

\* a run with --interval
InitOverride == Boot(Overrides)

(***************************************************************************)
(* The main thread                                                         *)
(***************************************************************************)
\* mutant: the flag is set and the worker started before the camera is tried
StartBeforeCamera ==
    /\ main_pc = "start"
    /\ UNCHANGED backlog
    /\ UNCHANGED boundary_vars
    /\ running' = TRUE
    /\ worker_pc' = "test"
    /\ \/ /\ main_pc' = "returned"
          /\ UNCHANGED camera_open
       \/ /\ camera_open' = TRUE
          /\ main_pc' = "loop_test"
    /\ UNCHANGED << show_preview, frame_count, anomaly_count, analysis_queue,
                    unfinished_tasks, last_analysis_time, previous_frame,
                    motion_frames_skipped, alerts, clock, has_motion, summary,
                    task, described, detected, result, observer_vars >>

\* start(): camera.start() fails and start returns, or the flag is set, the
\* signal handlers are installed and the worker thread is started
Start ==
    /\ main_pc = "start"
    /\ UNCHANGED backlog
    /\ UNCHANGED boundary_vars
    /\ \/ /\ main_pc' = "returned"
          /\ UNCHANGED << running, camera_open, worker_pc >>
       \/ /\ camera_open' = TRUE
          /\ running' = TRUE
          /\ worker_pc' = "test"
          /\ main_pc' = "loop_test"
    /\ UNCHANGED << show_preview, frame_count, anomaly_count, analysis_queue,
                    unfinished_tasks, last_analysis_time, previous_frame,
                    motion_frames_skipped, alerts, clock, has_motion, summary,
                    task, described, detected, result, observer_vars >>

\* mutant: the capture loop never looks at the flag
RunLoopContinuesAlways(flag) == TRUE

\* while self.running  (_run_loop)
RunLoopContinues(flag) == flag

RunLoopTest ==
    /\ main_pc = "loop_test"
    /\ UNCHANGED backlog
    /\ UNCHANGED boundary_vars
    /\ main_pc' = IF RunLoopContinues(running) THEN "capture" ELSE "stop"
    /\ UNCHANGED << system_vars, clock, has_motion, summary, worker_vars, observer_vars >>

\* one iteration of _run_loop up to the preview: capture, motion gate, submit
\* decision, put_nowait.  time.time() returns one of Times.
RunLoopBody(Times) ==
    /\ main_pc = "capture"
    /\ UNCHANGED backlog
    /\ UNCHANGED boundary_vars
    /\ \/ \* capture_frame() returned None
          /\ main_pc' = "capture_failed"
          /\ UNCHANGED << system_vars, clock, has_motion, summary, worker_vars,
                          observer_vars >>
       \/ \E f \in Frames, now \in Times :
            LET motion == HasMotion(previous_frame, f)
                submit == ShouldSubmit(motion, now, last_analysis_time)
                accepted == submit /\ ~QueueFull(analysis_queue)
                new == [frame |-> f, timestamp |-> now]
            IN  /\ submit => PutNowaitReturns(analysis_queue)
                /\ clock' = now
                /\ has_motion' = motion
                /\ previous_frame' = NextPreviousFrame(previous_frame, f)
                /\ last_captured' = f
                /\ last_decision' = IF submit THEN now ELSE last_decision
                /\ last_analysis_time' =
                       NextLastAnalysisTime(submit, accepted, now, last_analysis_time)
                /\ frame_count' = NextFrameCount(submit, accepted, frame_count)
                /\ IF accepted
                   THEN /\ analysis_queue' = Append(analysis_queue, new)
                        /\ unfinished_tasks' = unfinished_tasks + 1
                        /\ motion_frames_skipped' = 0
                        /\ enqueued' = Append(enqueued, new)
                   ELSE /\ motion_frames_skipped' =
                               IF ~submit /\ ~motion THEN motion_frames_skipped + 1
                               ELSE motion_frames_skipped
                        /\ UNCHANGED << analysis_queue, unfinished_tasks, enqueued >>
                /\ main_pc' = "preview"
                /\ UNCHANGED << running, show_preview, anomaly_count, camera_open,
                                alerts, summary, worker_vars, analysed, calls,
                                alert_calls >>

\* mutant: a failed capture ends the loop
CaptureFailureEndsLoop ==
    /\ main_pc = "capture_failed"
    /\ main_pc' = "stop"
    /\ UNCHANGED << boundary_vars, system_vars, clock, has_motion, summary,
                    worker_vars, observer_vars, backlog >>

\* after a failed capture: the warning, time.sleep(0.1), continue
CaptureFailed ==
    /\ main_pc = "capture_failed"
    /\ main_pc' = "loop_test"
    /\ UNCHANGED << boundary_vars, system_vars, clock, has_motion, summary,
                    worker_vars, observer_vars, backlog >>

\* the preview: with show_preview, the key 'q' clears the flag; then the sleep
Preview ==
    /\ main_pc = "preview"
    /\ UNCHANGED boundary_vars
    /\ \/ UNCHANGED << running, backlog >>
       \/ /\ show_preview
          /\ running' = FALSE
          /\ backlog' = BacklogAtClear(running, analysis_queue, backlog)
    /\ main_pc' = "loop_test"
    /\ UNCHANGED << show_preview, frame_count, anomaly_count, analysis_queue,
                    unfinished_tasks, last_analysis_time, previous_frame,
                    motion_frames_skipped, camera_open, alerts, clock, has_motion,
                    summary, worker_vars, observer_vars >>

\* _signal_handler, installed by start: SIGINT or SIGTERM arrives
SignalHandler ==
    /\ main_pc \in { "loop_test", "capture", "capture_failed", "preview", "stop",
                      "stopped" }
    /\ UNCHANGED boundary_vars
    /\ running' = FALSE
    /\ backlog' = BacklogAtClear(running, analysis_queue, backlog)
    /\ UNCHANGED << show_preview, frame_count, anomaly_count, analysis_queue,
                    unfinished_tasks, last_analysis_time, previous_frame,
                    motion_frames_skipped, camera_open, alerts, main_vars,
                    worker_vars, observer_vars >>

\* stop(), from the finally of start
Stop ==
    /\ main_pc = "stop"
    /\ UNCHANGED boundary_vars
    /\ running' = FALSE
    /\ backlog' = BacklogAtClear(running, analysis_queue, backlog)
    /\ camera_open' = FALSE
    /\ summary' = [frames |-> frame_count, anomalies |-> anomaly_count]
    /\ main_pc' = "stopped"
    /\ UNCHANGED << show_preview, frame_count, anomaly_count, analysis_queue,
                    unfinished_tasks, last_analysis_time, previous_frame,
                    motion_frames_skipped, alerts, clock, has_motion, worker_vars,
                    observer_vars >>

(***************************************************************************)
(* The analysis worker thread                                              *)
(***************************************************************************)
\* mutant: the worker never looks at the flag
WorkerContinuesAlways(flag) == TRUE

\* while self.running  (_analysis_worker)
WorkerContinues(flag) == flag

WorkerLoopTest ==
    /\ worker_pc = "test"
    /\ UNCHANGED backlog
    /\ UNCHANGED boundary_vars
    /\ worker_pc' = IF WorkerContinues(running) THEN "get" ELSE "done"
    /\ UNCHANGED << system_vars, main_vars, task, described, detected, result,
                    observer_vars >>

\* mutant: no except clause, an exception ends the worker thread
WorkerExceptEndsThread == "done"

\* except: continue  (_analysis_worker): back to the loop test
WorkerExcept == "test"

\* analysis_queue.get(timeout=1.0): the oldest task, or Empty after the timeout
\* (caught by the bare except: continue)
WorkerGet ==
    /\ worker_pc = "get"
    /\ UNCHANGED backlog
    /\ UNCHANGED boundary_vars
    /\ IF analysis_queue # << >>
       THEN /\ task' = QueueFront(analysis_queue).item
            /\ analysis_queue' = QueueFront(analysis_queue).rest
            /\ calls' = << >>
            /\ worker_pc' = "describe"
       ELSE /\ worker_pc' = WorkerExcept
            /\ UNCHANGED << task, analysis_queue, calls >>
    /\ UNCHANGED << running, show_preview, frame_count, anomaly_count,
                    unfinished_tasks, last_analysis_time, previous_frame,
                    motion_frames_skipped, camera_open, alerts, main_vars,
                    described, detected, result,
                    last_captured, last_decision, enqueued, analysed, alert_calls >>

\* mutant: a failed classifier call starts the analysis of the task again
AnalyzeExceptRetries == "describe"

\* except Exception  (analyze): the error result is returned to the worker
AnalyzeExcept == "dispatch"

\* detector.analyze(frame), first stage: the description call and the keyword
\* gate; answers are drawn from D
Describe(D) ==
    /\ worker_pc = "describe"
    /\ UNCHANGED backlog
    /\ UNCHANGED boundary_vars
    /\ analysed' = Append(analysed, task)
    /\ calls' = Append(calls, "analyze_frame")
    /\ \/ \E cause \in Causes :
            /\ described' = Raised(cause)
            /\ result' = ErrorResult(clock, cause)
            /\ worker_pc' = AnalyzeExcept
       \/ \E description \in D :
            /\ described' = Returned(description)
            /\ IF CheckForAnomaly(description)
               THEN /\ worker_pc' = "detect"
                    /\ UNCHANGED result
               ELSE /\ result' = Result(clock, description, FALSE, << >>, << >>)
                    /\ worker_pc' = "dispatch"
    /\ UNCHANGED << system_vars, main_vars, task, detected,
                    last_captured, last_decision, enqueued, alert_calls >>

\* detector.analyze(frame), second stage: the localization call and the
\* decision; results are drawn from R
Detect(R) ==
    /\ worker_pc = "detect"
    /\ UNCHANGED backlog
    /\ UNCHANGED boundary_vars
    /\ calls' = Append(calls, "detect_objects")
    /\ \/ \E cause \in Causes :
            /\ detected' = Raised(cause)
            /\ result' = ErrorResult(clock, cause)
            /\ worker_pc' = AnalyzeExcept
       \/ \E detection_result \in R :
            /\ detected' = Returned(detection_result)
            /\ result' = Result(clock, described.value, TRUE, detection_result,
                                Get(detection_result, "objects", << >>))
            /\ worker_pc' = "dispatch"
    /\ UNCHANGED << system_vars, main_vars, task, described,
                    last_captured, last_decision, enqueued, analysed, alert_calls >>

\* AlertHandler.handle_alert builds this and appends it to self.alerts
Alert(frame, analysis_result) ==
    [ timestamp |-> analysis_result.timestamp,
      description |-> analysis_result.description,
      image |-> frame,
      persons_detected |-> analysis_result.persons_detected,
      detected_objects |-> analysis_result.detected_objects ]

\* mutant: every analysed task is counted
CountEveryTask(is_anomaly, count) == count + 1

\* if result['is_anomaly']: self.anomaly_count += 1
NextAnomalyCount(is_anomaly, count) == IF is_anomaly THEN count + 1 ELSE count

\* the rest of the worker's iteration: count and forward an anomaly (handle_alert
\* may raise while it writes its files; the bare except swallows that and
\* task_done is skipped), or log; then task_done
Dispatch ==
    /\ worker_pc = "dispatch"
    /\ UNCHANGED backlog
    /\ UNCHANGED boundary_vars
    /\ anomaly_count' = NextAnomalyCount(result.is_anomaly, anomaly_count)
    /\ IF result.is_anomaly
       THEN /\ alert_calls' = alert_calls + 1
            /\ \/ /\ alerts' = Append(alerts, Alert(task.frame, result))
                  /\ unfinished_tasks' = unfinished_tasks - 1
                  /\ worker_pc' = "test"
               \/ /\ worker_pc' = WorkerExcept
                  /\ UNCHANGED << alerts, unfinished_tasks >>
       ELSE /\ unfinished_tasks' = unfinished_tasks - 1
            /\ worker_pc' = "test"
            /\ UNCHANGED << alert_calls, alerts >>
    /\ task' = None
    /\ described' = None
    /\ detected' = None
    /\ result' = None
    /\ UNCHANGED << running, show_preview, frame_count, analysis_queue,
                    last_analysis_time, previous_frame, motion_frames_skipped,
                    camera_open, main_vars,
                    last_captured, last_decision, enqueued, analysed, calls >>

(***************************************************************************)
(* Specifications                                                          *)
(***************************************************************************)
\* Spec: the clock has advanced by 1..FRAME_INTERVAL seconds since it was read
\* last, up to StartTime + MaxElapsed
SpecTimes == (clock + 1)..Min(clock + FRAME_INTERVAL, StartTime + MaxElapsed)

MainThread ==
    \/ Start
    \/ RunLoopTest
    \/ RunLoopBody(SpecTimes)
    \/ CaptureFailed
    \/ Preview
    \/ Stop

WorkerThread ==
    \/ WorkerLoopTest
    \/ WorkerGet
    \/ Describe(Descriptions)
    \/ Detect(DetectionResults)
    \/ Dispatch

Next ==
    \/ Start
    \/ RunLoopTest
    \/ RunLoopBody(SpecTimes)
    \/ CaptureFailed
    \/ Preview
    \/ Stop
    \/ SignalHandler
    \/ WorkerLoopTest
    \/ WorkerGet
    \/ Describe(Descriptions)
    \/ Detect(DetectionResults)
    \/ Dispatch

\* the whole pipeline for MaxElapsed seconds
Spec == Init /\ [][Next]_vars

\* the whole pipeline, started with --interval
SpecOverride == InitOverride /\ [][Next]_vars

\* threads are scheduled fairly; signals and keys need not come
FairSpec == Spec /\ WF_vars(MainThread) /\ WF_vars(WorkerThread)

\* SpecBacklog: until the queue is full a frame arrives when the throttle
\* interval has passed, afterwards at any pace; in all the clock runs at most
\* MaxSlack seconds behind one accepted frame every FRAME_INTERVAL seconds
BacklogTimes ==
    { t \in (clock + 1)..(clock + FRAME_INTERVAL) :
        /\ t <= StartTime + 1 + FRAME_INTERVAL * frame_count + MaxSlack
        /\ QueueFull(analysis_queue) \/ t - last_analysis_time >= FRAME_INTERVAL }

NextBacklog ==
    \/ Start
    \/ RunLoopTest
    \/ RunLoopBody(BacklogTimes)
    \/ CaptureFailed
    \/ Preview
    \/ Stop
    \/ SignalHandler
    \/ WorkerLoopTest
    \/ WorkerGet

\* a busy scene in front of a worker whose classifier call does not return:
\* the worker takes at most one task and the queue fills up
SpecBacklog == Init /\ [][NextBacklog]_vars

MainThreadBacklog ==
    \/ Start
    \/ RunLoopTest
    \/ RunLoopBody(BacklogTimes)
    \/ CaptureFailed
    \/ Preview
    \/ Stop

\* the i-th task of a run of SpecBacklog in which a frame with motion arrives
\* every FRAME_INTERVAL seconds
BusyTask(i) ==
    [ frame |-> IF i % 2 = 1 THEN Walker ELSE Still,
      timestamp |-> StartTime + 1 + FRAME_INTERVAL * (i - 1) ]

\* the state of such a run in which the worker has taken the first task and
\* the queue has just become full behind it
InitStalled ==
    LET tasks == [i \in 1..(QueueMaxsize + 1) |-> BusyTask(i)]
    IN  /\ args_interval = None
        /\ config_FRAME_INTERVAL = FRAME_INTERVAL
        /\ running = TRUE
        /\ show_preview \in BOOLEAN
        /\ frame_count = Len(tasks)
        /\ anomaly_count = 0
        /\ analysis_queue = Tail(tasks)
        /\ unfinished_tasks = Len(tasks)
        /\ last_analysis_time = Last(tasks).timestamp
        /\ previous_frame = ToGray(Last(tasks).frame)
        /\ motion_frames_skipped = 0
        /\ camera_open = TRUE
        /\ alerts = << >>
        /\ clock = Last(tasks).timestamp
        /\ main_pc = "preview"
        /\ has_motion = TRUE
        /\ summary = None
        /\ worker_pc = "describe"
        /\ task = Head(tasks)
        /\ described = None
        /\ detected = None
        /\ result = None
        /\ last_captured = Last(tasks).frame
        /\ last_decision = Last(tasks).timestamp
        /\ enqueued = tasks
        /\ analysed = << >>
        /\ calls = << >>
        /\ alert_calls = 0
        /\ backlog = << >>

NextStalled ==
    \/ RunLoopTest
    \/ RunLoopBody(BacklogTimes)
    \/ CaptureFailed
    \/ Preview
    \/ Stop
    \/ SignalHandler

\* the capture loop in front of a full queue and a worker whose classifier
\* call does not return; the main thread is scheduled fairly
FairSpecStalled == InitStalled /\ [][NextStalled]_vars /\ WF_vars(MainThreadBacklog)

\* SpecBusy: the clock has advanced by 1..FRAME_INTERVAL seconds since it was
\* read last, up to MaxElapsed seconds after the queue became full
BusyTimes ==
    { t \in (clock + 1)..(clock + FRAME_INTERVAL) :
        t <= BusyTask(QueueMaxsize + 1).timestamp + MaxElapsed }

NextBusy ==
    \/ RunLoopTest
    \/ RunLoopBody(BusyTimes)
    \/ CaptureFailed
    \/ Preview
    \/ Stop
    \/ SignalHandler
    \/ WorkerLoopTest
    \/ WorkerGet
    \/ Len(analysed) < MaxAnalysed /\ Describe(Descriptions)
    \/ Detect(DetectionResults)
    \/ Dispatch

\* a busy scene in front of a slow worker: from the moment the queue is full
\* behind the first task, the worker completes MaxAnalysed tasks and its next
\* classifier call does not return
SpecBusy == InitStalled /\ [][NextBusy]_vars

\* the worker has taken the first task of a run
InitDetector ==
    LET first == [frame |-> Walker, timestamp |-> StartTime + 1]
    IN  /\ args_interval = None
        /\ config_FRAME_INTERVAL = FRAME_INTERVAL
        /\ running = TRUE
        /\ show_preview = TRUE
        /\ frame_count = 1
        /\ anomaly_count = 0
        /\ analysis_queue = << >>
        /\ unfinished_tasks = 1
        /\ last_analysis_time = StartTime + 1
        /\ previous_frame = ToGray(Walker)
        /\ motion_frames_skipped = 0
        /\ camera_open = TRUE
        /\ alerts = << >>
        /\ clock = StartTime + 1
        /\ main_pc = "preview"
        /\ has_motion = TRUE
        /\ summary = None
        /\ worker_pc = "describe"
        /\ task = first
        /\ described = None
        /\ detected = None
        /\ result = None
        /\ last_captured = Walker
        /\ last_decision = StartTime + 1
        /\ enqueued = << first >>
        /\ analysed = << >>
        /\ calls = << >>
        /\ alert_calls = 0
        /\ backlog = << >>

NextDetector ==
    \/ Describe(AllDescriptions)
    \/ Detect(AllDetectionResults)
    \/ Dispatch

\* the two-stage decision on one task, over all the answers of AllDescriptions
SpecDetector == InitDetector /\ [][NextDetector]_vars

(***************************************************************************)
(* Properties                                                              *)
(***************************************************************************)
\* a step in which the capture loop decided to submit the frame it captured
SubmitDecided == last_decision' # last_decision

\* a step in which put_nowait put a task on the queue
Enqueued == enqueued' # enqueued

\* C1: analysis_queue never holds more than 10 tasks; a submission attempted
\* while it holds 10 fails and leaves the queue, its order and the counters as
\* they were (the incoming frame is the one dropped), so that as long as the
\* worker has taken nothing the queue is exactly the tasks accepted so far
C1_DropNewest ==
    /\ [](/\ Len(analysis_queue) <= QueueMaxsize
          /\ (analysed = << >> /\ task = None) => analysis_queue = enqueued)
    /\ [][(SubmitDecided /\ Len(analysis_queue) = QueueMaxsize)
            => /\ analysis_queue' = analysis_queue
               /\ enqueued' = enqueued
               /\ frame_count' = frame_count
               /\ unfinished_tasks' = unfinished_tasks]_vars

\* the eleventh submission was attempted on a queue holding the first ten
C1_Witness ==
    /\ Len(analysis_queue) = QueueMaxsize
    /\ analysis_queue = enqueued
    /\ last_decision > last_analysis_time
    /\ frame_count = QueueMaxsize

\* the objects the localization call returned for the task in hand
ObjectsReturned ==
    IF detected # None /\ detected.ok THEN Get(detected.value, "objects", << >>)
    ELSE << >>

\* C2: when no classifier call made for a task has failed, analyze returns
\* is_anomaly = TRUE exactly if the keyword gate holds of the description and
\* the localization call returned at least one object
C2_BothStagesRequired ==
    (worker_pc = "dispatch" /\ described.ok /\ (detected = None \/ detected.ok))
        => (result.is_anomaly <=> (CheckForAnomaly(described.value)
                                    /\ Len(ObjectsReturned) >= 1))

\* an alert keyword was found and the localization call returned no object
C2_Witness ==
    /\ worker_pc = "dispatch"
    /\ described.ok
    /\ described.value = "looks suspicious"
    /\ detected # None
    /\ detected.ok
    /\ ObjectsReturned = << >>
    /\ ~result.is_anomaly

\* the negation phrases of the keyword gate
NegationPhrases ==
    { "no anomaly", "nothing unusual", "appears normal", "everything looks normal" }

Negated(description) == \E p \in NegationPhrases : Contains(description, p)

\* C3: a description containing a negation phrase fails the keyword gate
\* whatever else it contains, the localization call is not made for that task,
\* and the result is is_anomaly = FALSE with confidence "normal"
C3_NegationWins ==
    (described # None /\ described.ok /\ Negated(described.value))
        => /\ ~CheckForAnomaly(described.value)
           /\ worker_pc = "dispatch"
           /\ detected = None
           /\ calls = << "analyze_frame" >>
           /\ result.is_anomaly = FALSE
           /\ result.confidence = "normal"
           /\ result.persons_detected = FALSE

\* a negation phrase together with an alert keyword and a human word
C3_Witness ==
    /\ worker_pc = "dispatch"
    /\ described.ok
    /\ described.value = "no anomaly, suspicious person nearby"
    /\ result.confidence = "normal"

\* C4: when the description call raises, analyze returns confidence "error",
\* is_anomaly FALSE, persons_detected FALSE and description "Error: <cause>",
\* the localization call is not made, and the worker forwards nothing to the
\* alert handler for that task
C4_DescriptionFailure ==
    /\ []((described # None /\ ~described.ok)
            => /\ worker_pc = "dispatch"
               /\ result.confidence = "error"
               /\ result.is_anomaly = FALSE
               /\ result.persons_detected = FALSE
               /\ result.description = "Error: " \o described.cause
               /\ detected = None
               /\ calls = << "analyze_frame" >>)
    /\ [][(described # None /\ ~described.ok)
            => /\ alerts' = alerts
               /\ alert_calls' = alert_calls
               /\ anomaly_count' = anomaly_count]_vars

\* the description call raised for a task taken after an alert was raised
C4_Witness ==
    /\ worker_pc = "dispatch"
    /\ ~described.ok
    /\ Len(alerts) = 1

\* C5 as stated: two true submit decisions are never less than FRAME_INTERVAL
\* apart, and every true decision sets last_analysis_time to the current time
C5_AsStated ==
    [][SubmitDecided
         => /\ last_decision' - last_decision >= FRAME_INTERVAL
            /\ last_analysis_time' = clock']_vars

\* C5, amended: a true submit decision comes with motion and at least
\* FRAME_INTERVAL after the last decision whose put_nowait succeeded; it sets
\* last_analysis_time to the current time when put_nowait succeeds, and leaves
\* it as it was when the queue is full
C5_ThrottleFromAcceptance ==
    [][SubmitDecided
         => /\ has_motion'
            /\ last_decision' = clock'
            /\ clock' - last_analysis_time >= FRAME_INTERVAL
            /\ IF Len(analysis_queue) < QueueMaxsize
               THEN Enqueued /\ last_analysis_time' = clock'
               ELSE ~Enqueued /\ last_analysis_time' = last_analysis_time]_vars

\* a true decision on a full queue, more than FRAME_INTERVAL after the last
\* accepted one
C5_Witness ==
    /\ main_pc = "preview"
    /\ Len(analysis_queue) = QueueMaxsize
    /\ has_motion
    /\ last_decision = clock
    /\ last_decision - last_analysis_time > FRAME_INTERVAL

\* a step in which the capture loop captured a frame and ran the motion gate
Captured == main_pc = "capture" /\ main_pc' = "preview"

\* C6: any two tasks put on analysis_queue carry timestamps at least
\* FRAME_INTERVAL apart, and a task is put on the queue only for the frame just
\* captured and only when _detect_motion returned TRUE for it
C6_RateLimited ==
    /\ [](\A i, j \in 1..Len(enqueued) :
            i < j => enqueued[j].timestamp - enqueued[i].timestamp >= FRAME_INTERVAL)
    /\ [][Enqueued
            => /\ Captured
               /\ has_motion'
               /\ enqueued' = Append(enqueued, [frame |-> last_captured',
                                                timestamp |-> clock'])]_vars

\* two tasks were queued exactly FRAME_INTERVAL apart
C6_Witness ==
    /\ Len(enqueued) = 2
    /\ enqueued[2].timestamp - enqueued[1].timestamp = FRAME_INTERVAL

\* C7: the first call of _detect_motion returns TRUE whatever the frame, seeds
\* previous_frame with its grayscale, and that frame is put on the queue
C7_ColdStart ==
    [][(Captured /\ previous_frame = None)
         => /\ has_motion' = TRUE
            /\ previous_frame' = ToGray(last_captured')
            /\ enqueued' = << [frame |-> last_captured', timestamp |-> clock'] >>
            /\ analysis_queue' = enqueued'
            /\ frame_count' = 1
            /\ last_analysis_time' = clock']_vars

\* the first frame of the run differs from an all-black buffer by less than
\* the motion area and was queued
C7_Witness ==
    /\ Len(enqueued) = 1
    /\ enqueued[1].frame = Flicker
    /\ frame_count = 1
    /\ previous_frame = ToGray(Flicker)

\* C8: when a captured frame has the content of the frame captured before it,
\* _detect_motion returns FALSE and nothing is put on the queue
C8_IdenticalFramesNoMotion ==
    [][(Captured /\ last_captured' = last_captured)
         => /\ has_motion' = FALSE
            /\ ~Enqueued
            /\ analysis_queue' = analysis_queue
            /\ frame_count' = frame_count
            /\ motion_frames_skipped' = motion_frames_skipped + 1]_vars

\* the frame queued first came again FRAME_INTERVAL later and was not queued
C8_Witness ==
    /\ main_pc = "preview"
    /\ Len(enqueued) = 1
    /\ last_captured = enqueued[1].frame
    /\ clock - enqueued[1].timestamp = FRAME_INTERVAL
    /\ motion_frames_skipped = 1
    /\ ~has_motion

\* C9: once the flag is cleared after start, the capture loop leaves at its
\* next loop test, the worker leaves at its next loop test, and both loops
\* are eventually left
C9_BothLoopsExit ==
    /\ [][(~running /\ main_pc = "loop_test" /\ main_pc' # main_pc)
            => main_pc' = "stop"]_vars
    /\ [][(~running /\ worker_pc = "test" /\ worker_pc' # worker_pc)
            => worker_pc' = "done"]_vars
    /\ (worker_pc # "unborn" /\ ~running)
           ~> (worker_pc = "done" /\ main_pc \in { "stop", "stopped" })

\* both loops were left while a task was still queued
C9_Witness ==
    /\ ~running
    /\ worker_pc = "done"
    /\ main_pc = "stopped"
    /\ analysis_queue # << >>

\* C10: the tasks analyze has been invoked on are, in order, the first tasks
\* put on the queue, each once; analyze is invoked on a task only when nothing
\* of the task before is in hand
C10_Fifo ==
    /\ Len(analysed) <= Len(enqueued)
    /\ \A i \in 1..Len(analysed) : analysed[i] = enqueued[i]
    /\ \A i, j \in 1..Len(enqueued) : i # j => enqueued[i] # enqueued[j]
    /\ worker_pc = "describe" => (described = None /\ detected = None /\ result = None)

\* two tasks were queued together and both analysed
C10_Witness ==
    /\ Len(analysed) = 2
    /\ worker_pc = "test"

\* C11: with the queue full and the worker stalled, the capture loop can
\* complete its iteration for every frame and every clock reading (put_nowait
\* does not wait); an iteration that decides to submit drops the frame and
\* goes on to the preview; every iteration is completed, and while the flag
\* is set the next one is begun
C11_NeverWaits ==
    /\ []((main_pc = "capture" /\ Len(analysis_queue) = QueueMaxsize)
            => \A f \in Frames, now \in BacklogTimes :
                 ENABLED (/\ RunLoopBody(BacklogTimes)
                          /\ last_captured' = f
                          /\ clock' = now
                          /\ main_pc' = "preview"))
    /\ [][(Captured /\ SubmitDecided /\ Len(analysis_queue) = QueueMaxsize)
            => /\ analysis_queue' = analysis_queue
               /\ frame_count' = frame_count
               /\ main_pc' = "preview"]_vars
    /\ (main_pc = "capture") ~> (main_pc = "loop_test")
    /\ (main_pc = "loop_test" /\ Len(analysis_queue) = QueueMaxsize)
           ~> (main_pc = "capture" \/ ~running)

\* a frame was dropped at a full queue while the worker was inside its first
\* classifier call, and the loop came round to its test with the flag set
C11_Witness ==
    /\ main_pc = "loop_test"
    /\ running
    /\ worker_pc = "describe"
    /\ Len(analysis_queue) = QueueMaxsize
    /\ last_decision = clock
    /\ last_decision - last_analysis_time > FRAME_INTERVAL

\* C12 as stated: in a run started with --interval the submit decision is true
\* exactly for a frame with motion captured at least the given interval after
\* last_analysis_time
C12_AsStated ==
    [][(Captured /\ Truthy(args_interval))
         => (SubmitDecided
               <=> (has_motion' /\ clock' - last_analysis_time >= args_interval[1]))]_vars

\* what the capture loop does in a run started with --interval: main has set
\* the attribute of config, and the decision is taken with the value the
\* surveillance module imported
C12_ImportedValueUsed ==
    /\ [](Truthy(args_interval) => config_FRAME_INTERVAL = args_interval[1])
    /\ [][(Captured /\ Truthy(args_interval))
            => (SubmitDecided
                  <=> (has_motion' /\ clock' - last_analysis_time >= FRAME_INTERVAL))]_vars

\* with --interval 3, a second frame was queued 2 seconds after the first
C12_Witness ==
    /\ args_interval = << 3 >>
    /\ config_FRAME_INTERVAL = 3
    /\ Len(enqueued) = 2
    /\ enqueued[2].timestamp - enqueued[1].timestamp = 2

\* C13: when camera.start() returns False, start returns with the flag still
\* False, no worker thread, no frame captured or queued, both counters 0, and
\* stop not called
C13_CameraFailureIsFatal ==
    main_pc = "returned"
        => /\ ~running
           /\ ~camera_open
           /\ worker_pc = "unborn"
           /\ last_captured = None
           /\ previous_frame = None
           /\ enqueued = << >>
           /\ analysis_queue = << >>
           /\ analysed = << >>
           /\ frame_count = 0
           /\ anomaly_count = 0
           /\ alerts = << >>
           /\ summary = None

\* start has returned because the camera could not be opened
C13_Witness ==
    /\ main_pc = "returned"
    /\ ~camera_open
    /\ clock = StartTime

\* a step in which a classifier call or handle_alert raised
TaskFailed ==
    \/ described = None /\ described' # None /\ ~described'.ok
    \/ detected = None /\ detected' # None /\ ~detected'.ok
    \/ alert_calls' # alert_calls /\ alerts' = alerts

\* C14: a step in which a classifier call or handle_alert raises leaves the
\* worker in its loop and the flag and the main thread as they were; the
\* worker leaves its loop only with the flag cleared; and again and again the
\* worker has analysed every task queued so far, unless the flag is cleared
C14_WorkerSurvivesFailure ==
    /\ [][TaskFailed
            => /\ worker_pc' \in { "dispatch", "test" }
               /\ running' = running
               /\ main_pc' = main_pc
               /\ analysis_queue' = analysis_queue]_vars
    /\ [][(worker_pc # "done" /\ worker_pc' = "done") => ~running]_vars
    /\ []<>(~running \/ Len(analysed) = Len(enqueued))

\* handle_alert raised for the first task, and the second task was analysed
C14_Witness ==
    /\ alert_calls = 1
    /\ alerts = << >>
    /\ Len(analysed) = 2
    /\ running

\* the tasks of the backlog the worker has taken from the queue
BacklogTaken ==
    { i \in 1..Len(backlog) :
        \/ task = backlog[i]
        \/ \E j \in 1..Len(analysed) : analysed[j] = backlog[i] }

\* C15 as stated: no task that was in the queue when the flag was cleared is
\* taken from the queue or analysed
C15_AsStated == BacklogTaken = { }

\* what the worker does: of the tasks in the queue when the flag was cleared
\* it takes at most the oldest, and only when it had passed its loop test
\* before the flag was cleared; the others stay in the queue
C15_AtMostOldestTaken ==
    /\ [](BacklogTaken \subseteq { 1 })
    /\ [][(~running /\ worker_pc = "test") => worker_pc' \in { "test", "done" }]_vars
    /\ [][(task = None /\ task' # None /\ ~running) => worker_pc = "get"]_vars

\* the flag was cleared with two tasks queued and the worker between its loop
\* test and get: the older task was analysed, the newer one stays queued
C15_Witness ==
    /\ Len(backlog) = 2
    /\ Len(analysed) = 1
    /\ analysed[1] = backlog[1]
    /\ analysis_queue = << backlog[2] >>
    /\ worker_pc = "done"

\* C16: the step that completes a task with is_anomaly TRUE invokes
\* handle_alert once, with the frame and the result of that task, and adds 1
\* to anomaly_count; with is_anomaly FALSE it does neither; nothing else
\* invokes handle_alert or writes anomaly_count, so anomaly_count is the number
\* of handle_alert invocations
C16_CountMatchesAlerts ==
    /\ [](anomaly_count = alert_calls /\ Len(alerts) <= alert_calls)
    /\ [][(worker_pc = "dispatch" /\ worker_pc' # "dispatch")
            => IF result.is_anomaly
               THEN /\ alert_calls' = alert_calls + 1
                    /\ anomaly_count' = anomaly_count + 1
                    /\ \/ alerts' = Append(alerts, Alert(task.frame, result))
                       \/ alerts' = alerts
               ELSE /\ alert_calls' = alert_calls
                    /\ anomaly_count' = anomaly_count
                    /\ alerts' = alerts]_vars
    /\ [][(alert_calls' # alert_calls \/ anomaly_count' # anomaly_count
             \/ alerts' # alerts) => worker_pc = "dispatch"]_vars

\* two tasks are complete, one with an anomaly and one without
C16_Witness ==
    /\ worker_pc = "test"
    /\ Len(analysed) = 2
    /\ anomaly_count = 1
    /\ alert_calls = 1
    /\ Len(alerts) = 1
    /\ alerts[1].image = analysed[1].frame

\* what a skipped cycle must leave alone
SkipKeeps ==
    UNCHANGED << previous_frame, last_analysis_time, analysis_queue, frame_count,
                 anomaly_count, motion_frames_skipped, enqueued, last_captured,
                 running >>

\* C17: an iteration in which capture_frame returns None leaves previous_frame,
\* last_analysis_time, the queue and both counters as they were and goes back
\* to the loop test; the loop test with the flag set goes on to capture, so
\* that capture is attempted again unless the flag is cleared
C17_FailedCaptureSkipsCycle ==
    /\ [][(main_pc = "capture" /\ main_pc' = "capture_failed") => SkipKeeps]_vars
    /\ [][(main_pc = "capture_failed" /\ main_pc' # main_pc)
            => (main_pc' = "loop_test" /\ SkipKeeps)]_vars
    /\ [][(main_pc = "loop_test" /\ running /\ main_pc' # main_pc)
            => main_pc' = "capture"]_vars
    /\ (main_pc = "capture_failed") ~> (main_pc = "capture" \/ ~running)

\* a capture failed after a frame had been queued, with the flag still set
C17_Witness ==
    /\ main_pc = "capture_failed"
    /\ running
    /\ frame_count = 1
    /\ analysis_queue # << >>

\* the grayscale of the frame captured before, None before the first frame
Predecessor == IF last_captured = None THEN None ELSE ToGray(last_captured)

\* C18: every call of _detect_motion leaves the grayscale of its frame in
\* previous_frame, with or without motion and whether the frame is then
\* queued, throttled or dropped at a full queue; the verdict is taken against
\* the frame captured immediately before
C18_AlwaysOverwrites ==
    /\ [](previous_frame = Predecessor)
    /\ [][Captured
            => /\ previous_frame' = ToGray(last_captured')
               /\ has_motion' = HasMotion(Predecessor, last_captured')]_vars
    /\ [][previous_frame' # previous_frame => Captured]_vars

\* a frame without motion against its predecessor, not the frame queued last,
\* has replaced the buffer while the queue was full
C18_Witness ==
    /\ main_pc = "preview"
    /\ Len(analysis_queue) = QueueMaxsize
    /\ ~has_motion
    /\ last_captured # Last(enqueued).frame
    /\ previous_frame = ToGray(last_captured)
    /\ MotionArea(ToGray(Last(enqueued).frame), last_captured) > min_motion_area

\* the person-count suffix for n objects
CountSuffix(n) == " [PERSON DETECTED: " \o ToString(n) \o " person(s) found]"

\* C19: when no classifier call has failed, the description of the result is
\* the classifier's text as it was returned, followed by the person-count
\* suffix exactly when persons_detected is TRUE; persons_detected is TRUE
\* exactly when the keyword gate passed and at least one object was returned
C19_DescriptionUnchanged ==
    (worker_pc = "dispatch" /\ described.ok /\ (detected = None \/ detected.ok))
        => /\ result.persons_detected
                <=> (CheckForAnomaly(described.value) /\ Len(ObjectsReturned) > 0)
           /\ result.description =
                IF result.persons_detected
                THEN described.value \o CountSuffix(Len(ObjectsReturned))
                ELSE described.value

\* the example: a human word without "person", one object returned
C19_Witness ==
    /\ worker_pc = "dispatch"
    /\ described.ok
    /\ described.value = "a woman walking, looks suspicious"
    /\ ~Contains(Lower(described.value), "person")
    /\ Len(ObjectsReturned) = 1
    /\ result.is_anomaly
    /\ result.persons_detected
    /\ result.description
         = "a woman walking, looks suspicious [PERSON DETECTED: 1 person(s) found]"

\* the localization call made for the task in hand has raised
DetectFailed == detected # None /\ ~detected.ok

\* C20: for each task the description call is made at most once and then the
\* localization call at most once, and no task is analysed twice; when the
\* localization call raises, the description had passed the keyword gate, the
\* result has confidence "error" and is_anomaly FALSE, no alert is raised, and
\* the worker goes back to its loop test with the queue as it was
C20_NoRetry ==
    /\ [](/\ calls \in { << >>, << "analyze_frame" >>,
                         << "analyze_frame", "detect_objects" >> }
          /\ \A i, j \in 1..Len(analysed) : i # j => analysed[i] # analysed[j])
    /\ [](DetectFailed
            => /\ worker_pc = "dispatch"
               /\ described.ok
               /\ CheckForAnomaly(described.value)
               /\ result.confidence = "error"
               /\ result.is_anomaly = FALSE
               /\ result.description = "Error: " \o detected.cause)
    /\ [][(DetectFailed /\ worker_pc' # worker_pc)
            => /\ worker_pc' = "test"
               /\ task' = None
               /\ analysis_queue' = analysis_queue
               /\ enqueued' = enqueued
               /\ alerts' = alerts
               /\ alert_calls' = alert_calls
               /\ anomaly_count' = anomaly_count]_vars

\* the localization call raised for the second task of a run
C20_Witness ==
    /\ DetectFailed
    /\ calls = << "analyze_frame", "detect_objects" >>
    /\ Len(analysed) = 2
    /\ result.confidence = "error"

\* the state InitStalled describes comes about in a run of SpecBacklog
StalledReached ==
    /\ main_pc = "preview"
    /\ worker_pc = "describe"
    /\ running
    /\ task = BusyTask(1)
    /\ enqueued = [i \in 1..(QueueMaxsize + 1) |-> BusyTask(i)]
    /\ analysis_queue = Tail(enqueued)
    /\ clock = Last(enqueued).timestamp
    /\ last_analysis_time = clock
    /\ last_decision = clock
    /\ frame_count = QueueMaxsize + 1
    /\ unfinished_tasks = frame_count
    /\ previous_frame = ToGray(Last(enqueued).frame)
    /\ last_captured = Last(enqueued).frame
    /\ has_motion
    /\ motion_frames_skipped = 0
    /\ camera_open
    /\ backlog = << >>
    /\ analysed = << >>
    /\ calls = << >>
    /\ summary = None

\* C21 as stated: once stop has printed the summary, neither counter changes
\* and handle_alert is not invoked again
C21_AsStated ==
    [][summary # None
         => /\ frame_count' = frame_count
            /\ anomaly_count' = anomaly_count
            /\ alert_calls' = alert_calls]_vars

\* what stop guarantees: the frame count printed is final; the worker is not
\* joined, so the task it has in hand when the summary is printed may still
\* add one anomaly and one alert
C21_FramesFinal ==
    /\ [](summary # None
            => /\ summary.frames = frame_count
               /\ anomaly_count - summary.anomalies \in { 0, 1 })
    /\ [][summary # None => summary' = summary]_vars

\* the summary said no anomaly, and the worker then counted one and raised
\* the alert for it
C21_Witness ==
    /\ main_pc = "stopped"
    /\ summary # None
    /\ summary.anomalies = 0
    /\ anomaly_count = 1
    /\ Len(alerts) = 1
    /\ worker_pc = "done"

\* the number of tasks the worker has taken from the queue
Dequeued == Len(analysed) + (IF worker_pc = "describe" THEN 1 ELSE 0)

CallRaised == ~described.ok \/ DetectFailed

\* C23: in every result analyze returns, confidence is "high" exactly when
\* is_anomaly is TRUE and "error" exactly when a classifier call raised (and
\* "normal" otherwise), persons_detected is TRUE only when the keyword gate
\* passed, and is_anomaly equals persons_detected
C23_ResultConsistent ==
    worker_pc = "dispatch"
        => /\ result.confidence \in { "high", "normal", "error" }
           /\ result.confidence = "high" <=> result.is_anomaly
           /\ result.confidence = "error" <=> CallRaised
           /\ result.persons_detected
                => (described.ok /\ CheckForAnomaly(described.value))
           /\ result.is_anomaly = result.persons_detected
           /\ result.persons_detected <=> Len(result.detected_objects) > 0

\* an alert keyword in capitals and two objects: a result of high confidence
C23_Witness ==
    /\ worker_pc = "dispatch"
    /\ described.ok
    /\ described.value = "Fire"
    /\ Len(result.detected_objects) = 2
    /\ result.confidence = "high"
    /\ result.is_anomaly
    /\ result.persons_detected

============================================================================
